---------------------------- MODULE Spec2Model ----------------------------
(***************************************************************************)
(* A model of the resizable containers of open-data-structures:           *)
(*   array.rs        Array<T>: raw storage, read_at / write_at /          *)
(*                   reallocate; the growable array push / remove / get   *)
(*   array_stack.rs  Array<T>: the growable array with checked accesses   *)
(*   array_queue.rs  ArrayQueue<T>: the FIFO ring (add / remove / peek)   *)
(*   array_deque.rs  ArrayQueue<T>: the ring with arbitrary-index add and *)
(*                   remove (enqueue / dequeue / peek / add / remove)     *)
(*                                                                         *)
(* A container is a record; every method is an operator from the record   *)
(* before the call to the record after it (and the returned Option).      *)
(* Memory is a function from slot numbers 0..capacity-1 to slot contents. *)
(* Option<T> is encoded in the integers: None is 0 and Some(v) is v.      *)
(***************************************************************************)
EXTENDS Integers, Sequences, FiniteSets, TLC

\* ------------------------------------------------------------------ bounds
\* Largest starting capacity handed to with_capacity.
MaxInitCap == 3
\* Insertions are offered only while fewer than MaxLen elements are stored,
MaxLen == 6
\* and only while they leave the capacity at most MaxCap.
MaxCap == 6
\* remove is offered only while it leaves first_in at most capacity + MaxOver
\* (first_in is a usize that remove increments without a modulo).
MaxOver == 1
\* Pushes on a plain Array are offered only while they leave its capacity at
\* most MaxArrayCap.
MaxArrayCap == 8

\* The values of the element type T.  The containers never inspect an
\* element (they only copy it), so two values are enough to tell any two
\* elements of a sequence apart.
Values == {1, 2}

\* ------------------------------------------------------------ array.rs
\* Option::None.
None == 0

\* What the allocator may have left in the slots lo..hi-1 of a fresh region:
\* any bytes, that is any value of T in every slot.  The allocating
\* operators take these contents as their argument `fresh'.
Alloc(lo, hi) == [lo..(hi - 1) -> Values]

\* Array::with_capacity: cap slots of fresh memory, size 0.
with_capacity(cap, fresh) == [capacity |-> cap, size |-> 0, mem |-> fresh]

\* Array::capacity.
capacity(arr) == arr.capacity

\* Array::write_at: the guard is idx > capacity (panic); a write at
\* idx = capacity lands outside the allocation and leaves the slots alone.
write_at(arr, idx, val) ==
    IF idx < arr.capacity THEN [arr EXCEPT !.mem[idx] = val] ELSE arr

\* The content of the memory just past the allocation, as read_at(capacity)
\* returns it: not a value the container holds.  The action that hands it to
\* the caller resolves it to any value (Outcomes).
Wild == -1

\* Array::read_at: None only for idx > capacity; idx = capacity passes the
\* guard and reads past the allocation.
read_at(arr, idx) ==
    IF idx > arr.capacity THEN None
    ELSE IF idx = arr.capacity THEN Wild
    ELSE arr.mem[idx]

\* What a caller may receive for the result r of a read.
Outcomes(r) == IF r = Wild THEN Values ELSE {r}

\* Array::reallocate: the prefix [0, min(old, new)) is kept, the slots past
\* it hold `fresh'.
reallocate(arr, new_capacity, fresh) ==
    [arr EXCEPT !.capacity = new_capacity,
                !.mem = [p \in 0..(new_capacity - 1) |->
                            IF p < arr.capacity THEN arr.mem[p] ELSE fresh[p]]]

\* Array::reallocate when realloc returns null: capacity was assigned before
\* the call, NonNull::new(..).unwrap() panics, ptr still names the old block.
reallocate_failed(arr, new_capacity) == [arr EXCEPT !.capacity = new_capacity]

\* An adjust_size that grows on size > capacity only (mutant).
new_capacity_late(size, cap) ==
    IF size > cap THEN cap * 2
    ELSE IF size < cap \div 2 THEN cap \div 2
    ELSE cap

\* An adjust_size that already shrinks at size = capacity / 2 (mutant).
new_capacity_eager(size, cap) ==
    IF size >= cap THEN cap * 2
    ELSE IF size <= cap \div 2 THEN cap \div 2
    ELSE cap

\* The capacity Array::adjust_size chooses for a size and a capacity.
new_capacity(size, cap) ==
    IF size >= cap THEN cap * 2
    ELSE IF size < cap \div 2 THEN cap \div 2
    ELSE cap

\* Array::adjust_size.
adjust_size(self, fresh) ==
    IF new_capacity(self.size, self.capacity) # self.capacity
    THEN reallocate(self, new_capacity(self.size, self.capacity), fresh)
    ELSE self

\* The slots adjust_size must allocate for a size and a capacity.
Adjusted(size, cap) == Alloc(cap, new_capacity(size, cap))

\* The capacity after n push_back calls on an Array of the given size and
\* capacity: each adjusts the capacity, then adds an element.
RECURSIVE CapacityAfterPushes(_, _, _)
CapacityAfterPushes(n, size, cap) ==
    IF n = 0 THEN cap
    ELSE CapacityAfterPushes(n - 1, size + 1, new_capacity(size, cap))

\* The capacity after n pop_back calls on a non-empty Array: each removes an
\* element, then adjusts the capacity.
RECURSIVE CapacityAfterPops(_, _, _)
CapacityAfterPops(n, size, cap) ==
    IF n = 0 THEN cap
    ELSE CapacityAfterPops(n - 1, size - 1, new_capacity(size - 1, cap))

\* Array::get.
get(self, idx) == IF idx >= self.size THEN None ELSE read_at(self, idx)

\* The loop of push walking index..size upwards (mutant).
RECURSIVE push_loop_up(_, _, _)
push_loop_up(self, index, i) ==
    IF i < index THEN self
    ELSE write_at(push_loop_up(self, index, i - 1), i + 1,
                  read_at(push_loop_up(self, index, i - 1), i))

\* The loop of Array::push: for i in (index..size).rev(), from i down.
RECURSIVE push_loop(_, _, _)
push_loop(self, index, i) ==
    IF i < index THEN self
    ELSE push_loop(write_at(self, i + 1, read_at(self, i)), index, i - 1)

\* Array::push.
push(self, index, val, fresh) ==
    LET s1 == adjust_size(self, fresh)
        s2 == IF index = s1.size THEN write_at(s1, s1.size, val)
              ELSE write_at(push_loop(s1, index, s1.size - 1), index, val)
    IN [s2 EXCEPT !.size = s2.size + 1]

\* Array::push_back.
push_back(self, val, fresh) == push(self, self.size, val, fresh)

\* Array::push_front.
push_front(self, val, fresh) == push(self, 0, val, fresh)

\* A remove loop that stops after its first move (mutant).
array_remove_loop_once(self, i) ==
    IF i >= self.size - 1 THEN self
    ELSE write_at(self, i, read_at(self, i + 1))

\* The loop of Array::remove: for i in idx..size - 1, from i on.
RECURSIVE array_remove_loop(_, _)
array_remove_loop(self, i) ==
    IF i >= self.size - 1 THEN self
    ELSE array_remove_loop(write_at(self, i, read_at(self, i + 1)), i + 1)

\* Array::remove.
array_remove(self, idx, fresh) ==
    IF idx >= self.size THEN [self |-> self, ret |-> None]
    ELSE LET v == read_at(self, idx)
             s1 == array_remove_loop(self, idx)
             s2 == [s1 EXCEPT !.size = s1.size - 1]
         IN [self |-> adjust_size(s2, fresh), ret |-> v]

\* usize::MAX, as far as the model needs it: a usize above every size and
\* capacity (the model keeps 16 bits of the word).
UsizeMax == 65535

\* The result of a call that panicked on an arithmetic overflow.
Overflowed == 0 - 3

\* Array::pop_back, the argument self.size - 1 in usize: on size 0 the
\* subtraction overflows, which panics in a build with overflow checks and
\* wraps to usize::MAX in one without.
pop_back_index(self) ==
    IF self.size >= 1 THEN {self.size - 1} ELSE {Overflowed, UsizeMax}

\* Array::pop_back, index being what self.size - 1 came to.
pop_back(self, index, fresh) ==
    IF index = Overflowed THEN [self |-> self, ret |-> Overflowed]
    ELSE array_remove(self, index, fresh)

\* Array::pop_front.
pop_front(self, fresh) == array_remove(self, 0, fresh)

\* Array::push: the indices handed to write_at, self being the Array after
\* adjust_size.
push_writes(self, index) ==
    IF index = self.size THEN {self.size}
    ELSE {i + 1 : i \in index..(self.size - 1)} \cup {index}

\* Array::remove: the indices handed to write_at.
array_remove_writes(self, idx) ==
    IF idx >= self.size THEN {} ELSE idx..(self.size - 2)

\* The sequence get(0), ..., get(size - 1) reads.
Elements(self) == [i \in 1..self.size |-> get(self, i - 1)]

\* ------------------------------------------------------- array_stack.rs
\* An Array whose last call panicked, and the value of a read that panicked.
Panic == [capacity |-> 0, size |-> 0 - 1, mem |-> <<>>]
Unwound == 0 - 2

\* Array::with_capacity (array_stack.rs).
stack_with_capacity(cap, fresh) == [capacity |-> cap, size |-> 0, mem |-> fresh]

\* Array::write_at (array_stack.rs): panics on idx > size or idx >= capacity.
stack_write_at(arr, idx, val) ==
    IF arr = Panic \/ val = Unwound THEN Panic
    ELSE IF idx > arr.size \/ idx >= arr.capacity THEN Panic
    ELSE [arr EXCEPT !.mem[idx] = val]

\* Array::read_at (array_stack.rs): panics on idx >= size or idx >= capacity.
stack_read_at(arr, idx) ==
    IF arr = Panic THEN Unwound
    ELSE IF idx >= arr.size \/ idx >= arr.capacity THEN Unwound
    ELSE arr.mem[idx]

\* Array::get (array_stack.rs).
stack_get(self, idx) == stack_read_at(self, idx)

\* Array::grow_if_needed.
grow_if_needed(self, fresh) ==
    IF self.size >= self.capacity
    THEN reallocate(self, self.capacity * 2, fresh)
    ELSE self

\* The slots grow_if_needed must allocate.
StackGrown(self) ==
    Alloc(self.capacity,
          IF self.size >= self.capacity THEN self.capacity * 2
          ELSE self.capacity)

\* The loop of Array::push (array_stack.rs), from i down.
RECURSIVE stack_push_loop(_, _, _)
stack_push_loop(self, index, i) ==
    IF i < index \/ self = Panic THEN self
    ELSE stack_push_loop(stack_write_at(self, i + 1, stack_read_at(self, i)),
                         index, i - 1)

\* Array::push (array_stack.rs).
stack_push(self, index, val, fresh) ==
    LET s1 == grow_if_needed(self, fresh)
        s2 == IF index = s1.size THEN stack_write_at(s1, s1.size, val)
              ELSE stack_write_at(stack_push_loop(s1, index, s1.size - 1),
                                  index, val)
    IN IF s2 = Panic THEN Panic ELSE [s2 EXCEPT !.size = s2.size + 1]

\* Array::push_back (array_stack.rs).
stack_push_back(self, val, fresh) == stack_push(self, self.size, val, fresh)

\* Array::push_front (array_stack.rs).
stack_push_front(self, val, fresh) == stack_push(self, 0, val, fresh)

\* The sequence get(0), ..., get(size - 1) reads (array_stack.rs).
StackElements(self) == [i \in 1..self.size |-> stack_get(self, i - 1)]

\* ------------------------------------------------------- array_deque.rs
\* ArrayQueue::with_capacity (array_deque.rs).
deque_with_capacity(cap, fresh) ==
    [arr |-> with_capacity(cap, fresh), first_in |-> 0, size |-> 0]

\* ArrayQueue::length.
length(self) == self.size

\* ArrayQueue::mod_index.
mod_index(self, idx) == (self.first_in + idx) % capacity(self.arr)

\* A peek whose bounds check is idx > size (mutant).
peek_inclusive(self, idx) ==
    IF idx > self.size THEN None
    ELSE read_at(self.arr, (self.first_in + idx) % capacity(self.arr))

\* ArrayQueue::peek.
peek(self, idx) ==
    IF idx >= self.size THEN None
    ELSE read_at(self.arr, (self.first_in + idx) % capacity(self.arr))

\* ArrayQueue::peek_back.
peek_back(self) == IF self.size = 0 THEN None ELSE peek(self, self.size - 1)

\* A dequeue that copies Array::adjust_size's shrink policy (mutant).
dequeue_shrinking(self) ==
    IF self.size = 0 THEN [self |-> self, ret |-> None]
    ELSE LET v == read_at(self.arr, self.first_in)
             cap == IF self.size - 1 < capacity(self.arr) \div 2
                    THEN capacity(self.arr) \div 2 ELSE capacity(self.arr)
         IN [self |-> [arr |-> reallocate(self.arr, cap, <<>>),
                       first_in |-> (self.first_in + 1) % capacity(self.arr),
                       size |-> self.size - 1],
             ret |-> v]

\* ArrayQueue::dequeue: the slot read is first_in itself, not first_in mod
\* capacity.
dequeue(self) ==
    IF self.size = 0 THEN [self |-> self, ret |-> None]
    ELSE LET v == read_at(self.arr, self.first_in)
         IN [self |-> [self EXCEPT
                          !.first_in = (self.first_in + 1) % capacity(self.arr),
                          !.size = self.size - 1],
             ret |-> v]

\* A relayout that copies from new_idx to former_idx (mutant).
RECURSIVE resize_loop_swapped(_, _, _)
resize_loop_swapped(self, old_capacity, i) ==
    IF i >= self.size THEN self
    ELSE LET former_idx == (self.first_in + i) % old_capacity
             new_idx == (self.first_in + i) % capacity(self.arr)
             next == IF former_idx # new_idx
                     THEN [self EXCEPT !.arr = write_at(self.arr, former_idx,
                                                  read_at(self.arr, new_idx))]
                     ELSE self
         IN resize_loop_swapped(next, old_capacity, i + 1)

\* The loop of ArrayQueue::resize, from iteration i on.
RECURSIVE resize_loop(_, _, _)
resize_loop(self, old_capacity, i) ==
    IF i >= self.size THEN self
    ELSE LET former_idx == (self.first_in + i) % old_capacity
             new_idx == (self.first_in + i) % capacity(self.arr)
             next == IF former_idx # new_idx
                     THEN [self EXCEPT !.arr = write_at(self.arr, new_idx,
                                                  read_at(self.arr, former_idx))]
                     ELSE self
         IN resize_loop(next, old_capacity, i + 1)

\* A resize that reallocates and does not move the wrapped elements (mutant).
resize_no_relayout(self, fresh) ==
    [self EXCEPT !.arr = reallocate(self.arr, 2 * capacity(self.arr), fresh)]

\* ArrayQueue::resize.
resize(self, fresh) ==
    LET old_capacity == capacity(self.arr)
    IN resize_loop(
           [self EXCEPT !.arr = reallocate(self.arr, 2 * old_capacity, fresh)],
           old_capacity, 0)

\* ArrayQueue::resize when its reallocate panics: the panic leaves resize
\* before the relayout loop.
resize_failed(self) ==
    [self EXCEPT !.arr = reallocate_failed(self.arr, 2 * capacity(self.arr))]

\* An enqueue that grows on size > capacity instead of size >= capacity (mutant).
enqueue_late_grow(self, val, fresh) ==
    LET s1 == IF self.size > capacity(self.arr) THEN resize(self, fresh) ELSE self
        dest_idx == (s1.first_in + s1.size) % capacity(s1.arr)
    IN [s1 EXCEPT !.arr = write_at(s1.arr, dest_idx, val), !.size = s1.size + 1]

\* ArrayQueue::enqueue.
enqueue(self, val, fresh) ==
    LET s1 == IF self.size >= capacity(self.arr) THEN resize(self, fresh) ELSE self
        dest_idx == (s1.first_in + s1.size) % capacity(s1.arr)
    IN [s1 EXCEPT !.arr = write_at(s1.arr, dest_idx, val), !.size = s1.size + 1]

\* One move of a shift loop: write_at(mod_index(to), read_at(mod_index(from))).
move(self, to, from) ==
    [self EXCEPT !.arr = write_at(self.arr, mod_index(self, to),
                                  read_at(self.arr, mod_index(self, from)))]

\* ArrayQueue::add, the tail shift: for i in (idx..size).rev(), from i down.
RECURSIVE add_right_loop(_, _, _)
add_right_loop(self, idx, i) ==
    IF i < idx THEN self
    ELSE add_right_loop(move(self, i + 1, i), idx, i - 1)

\* The tail shift iterating upwards, idx first.
RECURSIVE add_right_loop_up(_, _, _)
add_right_loop_up(self, idx, i) ==
    IF i >= self.size THEN self
    ELSE add_right_loop_up(move(self, i + 1, i), idx, i + 1)

\* A tail shift that walks idx..size upwards (mutant).
add_shift_right_up(self, idx) == add_right_loop_up(self, idx, idx)

\* ArrayQueue::add, idx > size / 2: shift [idx, size) one slot to the right.
add_shift_right(self, idx) == add_right_loop(self, idx, self.size - 1)

\* ArrayQueue::add, the head shift: for i in 0..idx + 1, from i on, with j
\* the index written next.
RECURSIVE add_left_loop(_, _, _, _)
add_left_loop(self, idx, i, j) ==
    IF i >= idx + 1 THEN self
    ELSE add_left_loop(move(self, j, i), idx, i + 1, i)

\* ArrayQueue::add, idx <= size / 2: shift [0, idx] one slot to the left and
\* step first_in back.  j starts at capacity - 1 (first_in = 0) or at
\* first_in - 1, and is passed through mod_index like every other index.
add_shift_left(self, idx) ==
    IF self.first_in = 0
    THEN [add_left_loop(self, idx, 0, capacity(self.arr) - 1)
             EXCEPT !.first_in = capacity(self.arr) - 1]
    ELSE [add_left_loop(self, idx, 0, self.first_in - 1)
             EXCEPT !.first_in = self.first_in - 1]

\* ArrayQueue::add.
add(self, idx, val, fresh) ==
    LET s1 == IF self.size >= capacity(self.arr) THEN resize(self, fresh) ELSE self
        s2 == IF idx > s1.size \div 2 THEN add_shift_right(s1, idx)
              ELSE add_shift_left(s1, idx)
    IN [s2 EXCEPT !.arr = write_at(s2.arr, mod_index(s2, idx), val),
                  !.size = s2.size + 1]

\* ArrayQueue::remove, the tail side: for i in idx..size - 1, from i on.
RECURSIVE remove_left_loop(_, _)
remove_left_loop(self, i) ==
    IF i >= self.size - 1 THEN self
    ELSE remove_left_loop(move(self, i, i + 1), i + 1)

\* ArrayQueue::remove, idx > size / 2: shift [idx + 1, size) one slot left.
remove_shift_left(self, idx) == remove_left_loop(self, idx)

\* ArrayQueue::remove, the head side: for i in (0..idx).rev(), from i down.
RECURSIVE remove_right_loop(_, _)
remove_right_loop(self, i) ==
    IF i < 0 THEN self
    ELSE remove_right_loop(move(self, i + 1, i), i - 1)

\* A head-side shift that forgets to advance first_in (mutant).
remove_shift_right_stay(self, idx) == remove_right_loop(self, idx - 1)

\* ArrayQueue::remove, idx <= size / 2: shift [0, idx) one slot right, then
\* first_in += 1 (no modulo).
remove_shift_right(self, idx) ==
    [remove_right_loop(self, idx - 1) EXCEPT !.first_in = self.first_in + 1]

\* ArrayQueue::remove.
remove(self, idx) ==
    IF idx >= self.size THEN [self |-> self, ret |-> None]
    ELSE LET el == peek(self, idx)
             s1 == IF idx > self.size \div 2 THEN remove_shift_left(self, idx)
                   ELSE remove_shift_right(self, idx)
         IN [self |-> [s1 EXCEPT !.size = s1.size - 1], ret |-> el]

\* The logical sequence: what peek(0), ..., peek(size - 1) return.
Logical(self) == [i \in 1..length(self) |-> peek(self, i - 1)]

\* The slots a ring operation must allocate: those of the doubled buffer
\* when the container is full, none otherwise.
Grown(self) ==
    Alloc(capacity(self.arr),
          IF self.size >= capacity(self.arr) THEN 2 * capacity(self.arr)
          ELSE capacity(self.arr))

\* The raw slot indices the ring operations hand to Array::read_at and
\* Array::write_at.  slots(self, I) are the slots mod_index gives for the
\* logical positions I.
slots(self, I) == {mod_index(self, i) : i \in I}

\* ArrayQueue::peek: the slot read.
peek_reads(self, idx) ==
    IF idx >= self.size THEN {}
    ELSE {(self.first_in + idx) % capacity(self.arr)}

\* ArrayQueue::dequeue: the slot read.
dequeue_reads(self) == IF self.size = 0 THEN {} ELSE {self.first_in}

\* ArrayQueue::resize: the positions i whose element the loop moves, the
\* slot it reads for position i and the slot it writes.
resize_former_idx(self, i) == (self.first_in + i) % capacity(self.arr)
resize_new_idx(self, i) == (self.first_in + i) % (2 * capacity(self.arr))
resize_moved(self) ==
    {i \in 0..(self.size - 1) :
        resize_former_idx(self, i) # resize_new_idx(self, i)}
resize_reads(self) == {resize_former_idx(self, i) : i \in resize_moved(self)}
resize_writes(self) == {resize_new_idx(self, i) : i \in resize_moved(self)}

\* The container as enqueue and add see it after their grow check, as far as
\* slot indices go: resize doubles the capacity and leaves first_in and size.
after_grow_check(self) ==
    IF self.size >= capacity(self.arr)
    THEN [self EXCEPT !.arr.capacity = 2 * capacity(self.arr)]
    ELSE self

\* ArrayQueue::enqueue: the slot written, self being the container after
\* the grow check.
enqueue_writes(self) == {(self.first_in + self.size) % capacity(self.arr)}

\* ArrayQueue::add: the slots the shift loop reads, self being the
\* container after the grow check.
add_reads(self, idx) ==
    IF idx > self.size \div 2 THEN slots(self, idx..(self.size - 1))
    ELSE slots(self, 0..idx)

\* ArrayQueue::add: the slots the shift loop and the final write_at write.
add_writes(self, idx) ==
    IF idx > self.size \div 2
    THEN slots(self, (idx + 1)..self.size) \cup {mod_index(self, idx)}
    ELSE LET j == IF self.first_in = 0 THEN capacity(self.arr) - 1
                  ELSE self.first_in - 1
         IN {mod_index(self, j)} \cup slots(self, 0..(idx - 1))
                \cup {mod_index([self EXCEPT !.first_in = j], idx)}

\* ArrayQueue::remove: the slots read by peek and by the shift loop.
remove_reads(self, idx) ==
    IF idx >= self.size THEN {}
    ELSE peek_reads(self, idx)
             \cup (IF idx > self.size \div 2
                   THEN slots(self, (idx + 1)..(self.size - 1))
                   ELSE slots(self, 0..(idx - 1)))

\* ArrayQueue::remove: the slots the shift loop writes.
remove_writes(self, idx) ==
    IF idx >= self.size THEN {}
    ELSE IF idx > self.size \div 2 THEN slots(self, idx..(self.size - 2))
    ELSE slots(self, 1..idx)

\* ------------------------------------------------------- array_queue.rs
\* ArrayQueue::with_capacity (array_queue.rs).
queue_with_capacity(cap, fresh) ==
    [arr |-> with_capacity(cap, fresh), first_in |-> 0, size |-> 0]

\* ArrayQueue::length (array_queue.rs).
queue_length(self) == self.size

\* ArrayQueue::peek (array_queue.rs).
queue_peek(self) ==
    IF self.size = 0 THEN None ELSE read_at(self.arr, self.first_in)

\* A remove that returns the first element and leaves first_in alone (mutant).
queue_remove_stuck(self) ==
    IF self.size = 0 THEN [self |-> self, ret |-> None]
    ELSE [self |-> [self EXCEPT !.size = self.size - 1],
          ret |-> read_at(self.arr, self.first_in)]

\* ArrayQueue::remove (array_queue.rs).
queue_remove(self) ==
    IF self.size = 0 THEN [self |-> self, ret |-> None]
    ELSE LET v == read_at(self.arr, self.first_in)
         IN [self |-> [self EXCEPT
                          !.first_in = (self.first_in + 1) % capacity(self.arr),
                          !.size = self.size - 1],
             ret |-> v]

\* The relayout loop of ArrayQueue::add (array_queue.rs), from iteration i on.
RECURSIVE queue_add_loop(_, _, _)
queue_add_loop(self, old_capacity, i) ==
    IF i >= self.size THEN self
    ELSE LET former_idx == (self.first_in + i) % old_capacity
             new_idx == (self.first_in + i) % capacity(self.arr)
             next == IF former_idx # new_idx
                     THEN [self EXCEPT !.arr = write_at(self.arr, new_idx,
                                                  read_at(self.arr, former_idx))]
                     ELSE self
         IN queue_add_loop(next, old_capacity, i + 1)

\* ArrayQueue::add (array_queue.rs).
queue_add(self, val, fresh) ==
    LET old_capacity == capacity(self.arr)
        s1 == IF self.size >= capacity(self.arr)
              THEN queue_add_loop(
                       [self EXCEPT
                           !.arr = reallocate(self.arr, 2 * old_capacity, fresh)],
                       old_capacity, 0)
              ELSE self
        dest_idx == (s1.first_in + s1.size) % capacity(s1.arr)
    IN [s1 EXCEPT !.arr = write_at(s1.arr, dest_idx, val), !.size = s1.size + 1]

\* ---------------------------------------------------------------- state
\* The insertions the model offers: see MaxLen and MaxCap.
Insertable(self) ==
    /\ self.size < MaxLen
    /\ self.size < capacity(self.arr) \/ 2 * capacity(self.arr) <= MaxCap

\* A container that was not created.
Absent == [arr |-> with_capacity(0, <<>>), first_in |-> 0, size |-> 0]

\* A plain Array that was not created.
NoArray == with_capacity(0, <<>>)

VARIABLES
    deque,      \* the array_deque.rs ArrayQueue
    last,       \* the last call on deque: its name, arguments and result, and
                \* the container before the call (logical sequence, first_in,
                \* capacity)
    start,      \* the capacity deque was created with
    enqueued,   \* how many enqueue calls were made, while enqueue was the
                \* only call that changed the container; -1 afterwards
    fifo,       \* the abstract FIFO sequence: the values enqueued and not yet
                \* dequeued, in enqueue order
    queue,      \* the array_queue.rs ArrayQueue
    test,       \* the fill-then-drain client: the values it enqueued (enq)
                \* and the results of its dequeues (out)
    array,      \* the array.rs Array
    stack       \* the array_stack.rs Array

vars == <<deque, last, start, enqueued, fifo, queue, test, array, stack>>

Call(op, idx, val, ret, pre) ==
    [op |-> op, idx |-> idx, val |-> val, ret |-> ret, seq |-> Logical(pre),
     first_in |-> pre.first_in, capacity |-> capacity(pre.arr)]

NoTest == [enq |-> <<>>, out |-> <<>>]

\* One deque, created by with_capacity(start) for any start in 1..MaxInitCap.
Init ==
    /\ start \in 1..MaxInitCap
    /\ \E fresh \in Alloc(0, start) : deque = deque_with_capacity(start, fresh)
    /\ last = Call("new", 0, None, None, deque)
    /\ enqueued = 0
    /\ fifo = <<>>
    /\ queue = Absent
    /\ test = NoTest
    /\ array = NoArray
    /\ stack = NoArray

\* The calls on the deque, with their record in `last'.
EnqueueCall(v) ==
    /\ Insertable(deque)
    /\ \E fresh \in Grown(deque) : deque' = enqueue(deque, v, fresh)
    /\ last' = Call("enqueue", deque.size, v, None, deque)
    /\ enqueued' = IF enqueued >= 0 THEN enqueued + 1 ELSE enqueued

DequeueCall ==
    /\ deque' = dequeue(deque).self
    /\ \E r \in Outcomes(dequeue(deque).ret) :
           last' = Call("dequeue", 0, None, r, deque)
    /\ enqueued' = 0 - 1

Enqueue(v) ==
    /\ EnqueueCall(v)
    /\ UNCHANGED <<start, fifo, queue, test, array, stack>>

Dequeue ==
    /\ DequeueCall
    /\ UNCHANGED <<start, fifo, queue, test, array, stack>>

Peek(idx) ==
    /\ idx <= deque.size
    /\ last' = Call("peek", idx, None, peek(deque, idx), deque)
    /\ UNCHANGED <<deque, enqueued, start, fifo, queue, test, array, stack>>

PeekBack ==
    /\ last' = Call("peek_back", 0, None, peek_back(deque), deque)
    /\ UNCHANGED <<deque, enqueued, start, fifo, queue, test, array, stack>>

Add(idx, v) ==
    /\ Insertable(deque)
    /\ idx <= deque.size
    /\ \E fresh \in Grown(deque) : deque' = add(deque, idx, v, fresh)
    /\ last' = Call("add", idx, v, None, deque)
    /\ enqueued' = 0 - 1
    /\ UNCHANGED <<start, fifo, queue, test, array, stack>>

Remove(idx) ==
    /\ idx <= deque.size
    /\ remove(deque, idx).self.first_in <= capacity(deque.arr) + MaxOver
    /\ deque' = remove(deque, idx).self
    /\ last' = Call("remove", idx, None, remove(deque, idx).ret, deque)
    /\ enqueued' = 0 - 1
    /\ UNCHANGED <<start, fifo, queue, test, array, stack>>

Next ==
    \/ \E v \in Values : Enqueue(v)
    \/ Dequeue
    \/ \E idx \in 0..MaxLen : Peek(idx)
    \/ PeekBack
    \/ \E idx \in 0..MaxLen, v \in Values : Add(idx, v)
    \/ \E idx \in 0..MaxLen : Remove(idx)

\* Any sequence of enqueue, dequeue, peek, peek_back, add (idx <= size) and
\* remove on a deque.
Spec == Init /\ [][Next]_vars

\* Enqueue and dequeue only, beside the abstract FIFO sequence.
RingEnqueue(v) ==
    /\ EnqueueCall(v)
    /\ fifo' = Append(fifo, v)
    /\ UNCHANGED <<start, queue, test, array, stack>>

RingDequeue ==
    /\ DequeueCall
    /\ fifo' = IF fifo = <<>> THEN fifo ELSE Tail(fifo)
    /\ UNCHANGED <<start, queue, test, array, stack>>

NextRing ==
    \/ \E v \in Values : RingEnqueue(v)
    \/ RingDequeue

SpecRing == Init /\ [][NextRing]_vars

\* add(idx, v) immediately followed by remove(idx), as one step of a client,
\* among the other calls.
AddRemove(idx, v) ==
    /\ Insertable(deque)
    /\ idx <= deque.size
    /\ \E fresh \in Grown(deque) :
           LET added == add(deque, idx, v, fresh)
           IN /\ remove(added, idx).self.first_in
                     <= capacity(added.arr) + MaxOver
              /\ deque' = remove(added, idx).self
              /\ last' = Call("add_remove", idx, v, remove(added, idx).ret, deque)
    /\ enqueued' = 0 - 1
    /\ UNCHANGED <<start, fifo, queue, test, array, stack>>

NextRoundTrip ==
    \/ Next
    \/ \E idx \in 0..MaxLen, v \in Values : AddRemove(idx, v)

SpecRoundTrip == Init /\ [][NextRoundTrip]_vars

\* add(idx, v) with idx > size, among the other calls.
AddBeyond(idx, v) ==
    /\ Insertable(deque)
    /\ idx > deque.size
    /\ \E fresh \in Grown(deque) : deque' = add(deque, idx, v, fresh)
    /\ last' = Call("add_beyond", idx, v, None, deque)
    /\ enqueued' = 0 - 1
    /\ UNCHANGED <<start, fifo, queue, test, array, stack>>

NextAddAny ==
    \/ Next
    \/ \E idx \in 1..(MaxLen + 1), v \in Values : AddBeyond(idx, v)

SpecAddAny == Init /\ [][NextAddAny]_vars

\* enqueue and add on a full container whose reallocation fails: the call
\* panics out of resize.  Nothing runs on the container after the panic.
Panicked == last.op \in {"enqueue_failed", "add_failed"}

EnqueueFails(v) ==
    /\ ~Panicked
    /\ Insertable(deque)
    /\ deque.size >= capacity(deque.arr)
    /\ deque' = resize_failed(deque)
    /\ last' = Call("enqueue_failed", deque.size, v, None, deque)
    /\ enqueued' = 0 - 1
    /\ UNCHANGED <<start, fifo, queue, test, array, stack>>

AddFails(idx, v) ==
    /\ ~Panicked
    /\ Insertable(deque)
    /\ idx <= deque.size
    /\ deque.size >= capacity(deque.arr)
    /\ deque' = resize_failed(deque)
    /\ last' = Call("add_failed", idx, v, None, deque)
    /\ enqueued' = 0 - 1
    /\ UNCHANGED <<start, fifo, queue, test, array, stack>>

NextGrowFail ==
    \/ ~Panicked /\ Next
    \/ \E v \in Values : EnqueueFails(v)
    \/ \E idx \in 0..MaxLen, v \in Values : AddFails(idx, v)

SpecGrowFail == Init /\ [][NextGrowFail]_vars

\* The pushes the model offers on a plain Array: see MaxLen and MaxArrayCap.
Pushable(self) ==
    /\ self.size < MaxLen
    /\ self.size < self.capacity \/ 2 * self.capacity <= MaxArrayCap

\* The record of a call on a plain Array whose elements were seq.
ArrayCall(op, idx, val, ret, seq, cap) ==
    [op |-> op, idx |-> idx, val |-> val, ret |-> ret, seq |-> seq,
     first_in |-> 0, capacity |-> cap]

\* One plain Array, of array.rs or of array_stack.rs, created by
\* with_capacity(start).
InitArray ==
    /\ start \in 1..MaxInitCap
    /\ \E fresh \in Alloc(0, start) :
           \/ array = with_capacity(start, fresh) /\ stack = NoArray
           \/ stack = stack_with_capacity(start, fresh) /\ array = NoArray
    /\ last = ArrayCall("new", 0, None, None, <<>>, start)
    /\ deque = Absent
    /\ queue = Absent
    /\ enqueued = 0
    /\ fifo = <<>>
    /\ test = NoTest

Push(index, v) ==
    /\ array # NoArray
    /\ Pushable(array)
    /\ index <= array.size
    /\ \E fresh \in Adjusted(array.size, array.capacity) :
           array' = push(array, index, v, fresh)
    /\ last' = ArrayCall("push", index, v, None, Elements(array), array.capacity)
    /\ UNCHANGED <<deque, start, enqueued, fifo, queue, test, stack>>

PushBack(v) ==
    /\ array # NoArray
    /\ Pushable(array)
    /\ \E fresh \in Adjusted(array.size, array.capacity) :
           array' = push_back(array, v, fresh)
    /\ last' = ArrayCall("push_back", array.size, v, None, Elements(array),
                         array.capacity)
    /\ UNCHANGED <<deque, start, enqueued, fifo, queue, test, stack>>

PushFront(v) ==
    /\ array # NoArray
    /\ Pushable(array)
    /\ \E fresh \in Adjusted(array.size, array.capacity) :
           array' = push_front(array, v, fresh)
    /\ last' = ArrayCall("push_front", 0, v, None, Elements(array),
                         array.capacity)
    /\ UNCHANGED <<deque, start, enqueued, fifo, queue, test, stack>>

ArrayRemove(idx) ==
    /\ array # NoArray
    /\ idx <= array.size
    /\ \E fresh \in Adjusted(array.size - 1, array.capacity) :
           /\ array' = array_remove(array, idx, fresh).self
           /\ last' = ArrayCall("remove", idx, None,
                                array_remove(array, idx, fresh).ret,
                                Elements(array), array.capacity)
    /\ UNCHANGED <<deque, start, enqueued, fifo, queue, test, stack>>

PopBack ==
    /\ array # NoArray
    /\ array.size > 0
    /\ \E index \in pop_back_index(array),
          fresh \in Adjusted(array.size - 1, array.capacity) :
           /\ array' = pop_back(array, index, fresh).self
           /\ last' = ArrayCall("pop_back", index, None,
                                pop_back(array, index, fresh).ret,
                                Elements(array), array.capacity)
    /\ UNCHANGED <<deque, start, enqueued, fifo, queue, test, stack>>

\* pop_back on an empty Array.
PopBackEmpty ==
    /\ array # NoArray
    /\ array.size = 0
    /\ \E index \in pop_back_index(array),
          fresh \in Adjusted(array.size - 1, array.capacity) :
           /\ array' = pop_back(array, index, fresh).self
           /\ last' = ArrayCall("pop_back_empty", index, None,
                                pop_back(array, index, fresh).ret,
                                Elements(array), array.capacity)
    /\ UNCHANGED <<deque, start, enqueued, fifo, queue, test, stack>>

PopFront ==
    /\ array # NoArray
    /\ \E fresh \in Adjusted(array.size - 1, array.capacity) :
           /\ array' = pop_front(array, fresh).self
           /\ last' = ArrayCall("pop_front", 0, None,
                                pop_front(array, fresh).ret,
                                Elements(array), array.capacity)
    /\ UNCHANGED <<deque, start, enqueued, fifo, queue, test, stack>>

StackPush(index, v) ==
    /\ stack # NoArray
    /\ Pushable(stack)
    /\ index <= stack.size
    /\ \E fresh \in StackGrown(stack) :
           stack' = stack_push(stack, index, v, fresh)
    /\ last' = ArrayCall("stack_push", index, v, None, StackElements(stack),
                         stack.capacity)
    /\ UNCHANGED <<deque, start, enqueued, fifo, queue, test, array>>

StackPushBack(v) ==
    /\ stack # NoArray
    /\ Pushable(stack)
    /\ \E fresh \in StackGrown(stack) :
           stack' = stack_push_back(stack, v, fresh)
    /\ last' = ArrayCall("stack_push_back", stack.size, v, None,
                         StackElements(stack), stack.capacity)
    /\ UNCHANGED <<deque, start, enqueued, fifo, queue, test, array>>

StackPushFront(v) ==
    /\ stack # NoArray
    /\ Pushable(stack)
    /\ \E fresh \in StackGrown(stack) :
           stack' = stack_push_front(stack, v, fresh)
    /\ last' = ArrayCall("stack_push_front", 0, v, None,
                         StackElements(stack), stack.capacity)
    /\ UNCHANGED <<deque, start, enqueued, fifo, queue, test, array>>

NextArray ==
    \/ \E index \in 0..MaxLen, v \in Values : Push(index, v)
    \/ \E v \in Values : PushBack(v)
    \/ \E v \in Values : PushFront(v)
    \/ \E idx \in 0..MaxLen : ArrayRemove(idx)
    \/ PopBack
    \/ PopFront
    \/ \E index \in 0..MaxLen, v \in Values : StackPush(index, v)
    \/ \E v \in Values : StackPushBack(v)
    \/ \E v \in Values : StackPushFront(v)

SpecArray == InitArray /\ [][NextArray]_vars

\* The same calls, and pop_back on an empty Array.
NextArrayPop ==
    \/ NextArray
    \/ PopBackEmpty

SpecArrayPop == InitArray /\ [][NextArrayPop]_vars

\* The fill-then-drain client: n enqueues followed by n dequeues, on a queue
\* of one of the two types.
InitFifo ==
    /\ start \in 1..MaxInitCap
    /\ \E fresh \in Alloc(0, start) :
           \/ queue = queue_with_capacity(start, fresh) /\ deque = Absent
           \/ deque = deque_with_capacity(start, fresh) /\ queue = Absent
    /\ last = Call("new", 0, None, None, deque)
    /\ enqueued = 0
    /\ fifo = <<>>
    /\ test = NoTest
    /\ array = NoArray
    /\ stack = NoArray

FillQueue(v) ==
    /\ queue # Absent
    /\ test.out = <<>>
    /\ Insertable(queue)
    /\ \E fresh \in Grown(queue) : queue' = queue_add(queue, v, fresh)
    /\ test' = [test EXCEPT !.enq = Append(@, v)]
    /\ UNCHANGED <<deque, last, start, enqueued, fifo, array, stack>>

DrainQueue ==
    /\ queue # Absent
    /\ Len(test.out) < Len(test.enq)
    /\ queue' = queue_remove(queue).self
    /\ \E r \in Outcomes(queue_remove(queue).ret) :
           test' = [test EXCEPT !.out = Append(@, r)]
    /\ UNCHANGED <<deque, last, start, enqueued, fifo, array, stack>>

FillDeque(v) ==
    /\ deque # Absent
    /\ test.out = <<>>
    /\ EnqueueCall(v)
    /\ test' = [test EXCEPT !.enq = Append(@, v)]
    /\ UNCHANGED <<start, fifo, queue, array, stack>>

DrainDeque ==
    /\ deque # Absent
    /\ Len(test.out) < Len(test.enq)
    /\ DequeueCall
    /\ test' = [test EXCEPT !.out = Append(@, last'.ret)]
    /\ UNCHANGED <<start, fifo, queue, array, stack>>

NextFifo ==
    \/ \E v \in Values : FillQueue(v)
    \/ DrainQueue
    \/ \E v \in Values : FillDeque(v)
    \/ DrainDeque

SpecFifo == InitFifo /\ [][NextFifo]_vars

\* ----------------------------------------------------------- properties
\* s[0..idx) ++ [v] ++ s[idx..size), for a sequence s indexed from 1.
InsertAt(s, idx, v) == SubSeq(s, 1, idx) \o <<v>> \o SubSeq(s, idx + 1, Len(s))

\* s[0..idx) ++ s[idx+1..size).
RemoveAt(s, idx) == SubSeq(s, 1, idx) \o SubSeq(s, idx + 2, Len(s))

\* C3.  Head-shift insertion: after add(idx, v) with idx <= size / 2, called
\* in any reachable state, the logical sequence read through peek is the
\* sequence before the call with v inserted at position idx.
HeadShiftInsert ==
    (last.op = "add" /\ last.idx <= Len(last.seq) \div 2)
        => Logical(deque) = InsertAt(last.seq, last.idx, last.val)

\* C4.  Tail-shift insertion: after add(idx, v) with size / 2 < idx <= size,
\* called in any reachable state, the logical sequence read through peek is
\* the sequence before the call with v inserted at position idx.
TailShiftInsert ==
    (last.op = "add" /\ last.idx > Len(last.seq) \div 2)
        => Logical(deque) = InsertAt(last.seq, last.idx, last.val)

\* C4 witness: a tail-shift add that moved elements across the end of the
\* buffer (the slot of position idx lies above the slot of position size).
TailShiftWraps ==
    /\ last.op = "add"
    /\ last.idx > Len(last.seq) \div 2
    /\ last.idx < Len(last.seq)
    /\ last.capacity = capacity(deque.arr)
    /\ mod_index(deque, last.idx) > mod_index(deque, Len(last.seq))

\* A tail-shift add that moved elements and first grew a wrapped buffer.
TailShiftGrows ==
    /\ last.op = "add"
    /\ last.idx > Len(last.seq) \div 2
    /\ last.idx < Len(last.seq)
    /\ 2 * last.capacity = capacity(deque.arr)
    /\ last.first_in % last.capacity # 0

\* C5.  Removal: remove(idx) with idx < size returns Some(s[idx]) and leaves
\* the logical sequence s[0..idx) ++ s[idx+1..size), of length size - 1.
Removal ==
    (last.op = "remove" /\ last.idx < Len(last.seq))
        => /\ last.ret = last.seq[last.idx + 1]
           /\ Logical(deque) = RemoveAt(last.seq, last.idx)
           /\ length(deque) = Len(last.seq) - 1

\* C5 witness: a removal on the head side that moved an element, in a
\* buffer whose first element is not at slot 0.
RemovalHeadSide ==
    /\ last.op = "remove"
    /\ last.idx >= 1
    /\ last.idx <= Len(last.seq) \div 2
    /\ last.first_in # 0

\* A removal on the tail side that moved an element.
RemovalTailSide ==
    /\ last.op = "remove"
    /\ last.idx > Len(last.seq) \div 2
    /\ last.idx + 1 < Len(last.seq)

\* C7.  dequeue on a container with size > 0 returns the logical first
\* element and leaves the rest of the sequence in order; it returns None
\* only when size = 0.
DequeueReturnsFirst ==
    last.op = "dequeue"
        => IF Len(last.seq) > 0
           THEN last.ret = last.seq[1] /\ Logical(deque) = Tail(last.seq)
           ELSE last.ret = None

\* C8.  Ring invariant: 0 <= first_in < capacity and size <= capacity.
RingInvariant ==
    /\ 0 <= deque.first_in
    /\ deque.first_in < capacity(deque.arr)
    /\ deque.size <= capacity(deque.arr)

\* C9.  Capacity doubling: an insertion (enqueue or add) doubles the capacity
\* exactly when size = capacity at the call and otherwise leaves it alone;
\* from a starting capacity C, C enqueues leave it at C and the (C+1)-th
\* makes it 2C.
CapacityDoubling ==
    /\ last.op \in {"enqueue", "add"}
           => capacity(deque.arr) = IF Len(last.seq) = last.capacity
                                    THEN 2 * last.capacity ELSE last.capacity
    /\ (0 <= enqueued /\ enqueued <= start) => capacity(deque.arr) = start
    /\ enqueued = start + 1 => capacity(deque.arr) = 2 * start

\* C9 witness: the (C+1)-th enqueue into a container created with C >= 2.
GrownByEnqueue ==
    /\ start >= 2
    /\ enqueued = start + 1
    /\ last.op = "enqueue"

\* C10.  The ring container never shrinks: no call lowers the capacity.
NeverShrinks ==
    [][capacity(deque'.arr) >= capacity(deque.arr)]_vars

\* C10 witness: a container that grew and was then drained to size 0.
DrainedAfterGrow ==
    /\ last.op \in {"dequeue", "remove"}
    /\ deque.size = 0
    /\ capacity(deque.arr) > start

\* C1.  Ring consistency: after any interleaving of enqueue and dequeue,
\* grows included, peek(i) returns the i-th element of the abstract FIFO
\* sequence for every i in [0, size), and length() is its length.
RingConsistency ==
    /\ length(deque) = Len(fifo)
    /\ \A i \in 0..(length(deque) - 1) : peek(deque, i) = fifo[i + 1]

\* C1 witness: an enqueue that grew a buffer whose contents wrapped around
\* its end, the first and the last element being different values.
GrownWhileWrapped ==
    /\ last.op = "enqueue"
    /\ capacity(deque.arr) = 2 * last.capacity
    /\ last.first_in > 0
    /\ Len(last.seq) >= 2
    /\ fifo[1] # fifo[Len(last.seq)]

\* C2.  FIFO order: n enqueues of e1..en followed by n dequeues return
\* Some(e1), ..., Some(en) in that order and leave the container with
\* length 0, for either queue type.
FifoOrder ==
    /\ test.out = SubSeq(test.enq, 1, Len(test.out))
    /\ Len(test.out) = Len(test.enq)
           => queue_length(queue) = 0 /\ length(deque) = 0

\* C2 witness: an array_queue drained after it grew, of at least three
\* elements that are not all the same.
QueueDrained ==
    /\ queue # Absent
    /\ capacity(queue.arr) > start
    /\ Len(test.enq) >= 3
    /\ test.enq[1] # test.enq[2]
    /\ Len(test.out) = Len(test.enq)

\* The same for the deque.
DequeDrained ==
    /\ deque # Absent
    /\ capacity(deque.arr) > start
    /\ Len(test.enq) >= 3
    /\ test.enq[1] # test.enq[2]
    /\ Len(test.out) = Len(test.enq)

\* C6.  Round trip: add(idx, v) immediately followed by remove(idx), for
\* any idx in [0, size], returns Some(v) and restores the logical sequence
\* and the length.
RoundTrip ==
    last.op = "add_remove"
        => /\ last.ret = last.val
           /\ Logical(deque) = last.seq
           /\ length(deque) = Len(last.seq)

\* C11.  Out-of-range reads and removals: in every reachable state peek(i)
\* with i >= size, remove(idx) with idx >= size, and peek_back() and
\* dequeue() on an empty container return None and leave first_in, size,
\* capacity and the stored elements as they were; a drained container keeps
\* answering None to dequeue.
OutOfRangeIsNone ==
    /\ \A i \in deque.size..(MaxLen + 1) :
           /\ peek(deque, i) = None
           /\ remove(deque, i) = [self |-> deque, ret |-> None]
    /\ deque.size = 0
           => /\ peek_back(deque) = None
              /\ dequeue(deque) = [self |-> deque, ret |-> None]
    /\ (\/ last.op \in {"peek", "remove"} /\ last.idx >= Len(last.seq)
        \/ last.op \in {"peek_back", "dequeue"} /\ Len(last.seq) = 0)
           => /\ last.ret = None
              /\ deque.first_in = last.first_in
              /\ deque.size = Len(last.seq)
              /\ capacity(deque.arr) = last.capacity
              /\ Logical(deque) = last.seq

\* C11 witness: a dequeue on a container that grew, was drained and whose
\* first_in is not 0.
DequeueOnDrained ==
    /\ last.op = "dequeue"
    /\ Len(last.seq) = 0
    /\ capacity(deque.arr) > start
    /\ deque.first_in # 0

\* An out-of-range remove on a container that holds elements.
RemoveOutOfRange ==
    /\ last.op = "remove"
    /\ last.idx >= Len(last.seq)
    /\ Len(last.seq) >= 2

\* A peek_back on an empty container.
PeekBackOnEmpty ==
    /\ last.op = "peek_back"
    /\ Len(last.seq) = 0
    /\ last.first_in # 0

\* C12.  Out-of-range insertion: add(idx, v) with idx > size is rejected: the
\* size and the logical elements at positions [0, size) are as before the
\* call, so no stale or uninitialized slot joins the logical sequence.
AddBeyondRejected ==
    last.op = "add_beyond"
        => /\ length(deque) = Len(last.seq)
           /\ Logical(deque) = last.seq

\* C13.  Failure safety of growth: when the reallocation of a grow fails, the
\* container is as before the call: capacity, first_in, size and every
\* stored element.
GrowFailureSafe ==
    Panicked
        => /\ capacity(deque.arr) = last.capacity
           /\ deque.first_in = last.first_in
           /\ deque.size = Len(last.seq)
           /\ Logical(deque) = last.seq

\* C14.  Tail-append equivalence: in every reachable state, the empty
\* container included, add(size, v) leaves the container in the state
\* enqueue(v) leaves it in (first_in, size, capacity, every slot), so it
\* moves no element.
TailAppendIsEnqueue ==
    Insertable(deque)
        => \A v \in Values, fresh \in Grown(deque) :
               add(deque, deque.size, v, fresh) = enqueue(deque, v, fresh)

\* The same on the containers that hold at least one element.
TailAppendNonEmpty ==
    (Insertable(deque) /\ deque.size >= 1)
        => \A v \in Values, fresh \in Grown(deque) :
               add(deque, deque.size, v, fresh) = enqueue(deque, v, fresh)

\* C15.  Growable array insertion, for the Array of array.rs and the Array
\* of array_stack.rs: push(index, v) with index <= size yields
\* a[0..index) ++ [v] ++ a[index..size) as read by get, push_front(v) acts
\* as push(0, v) and push_back(v) as push(size, v), across any capacity
\* change made by the push.
ArrayInsertion ==
    /\ last.op \in {"push", "push_back", "push_front"}
           => Elements(array) = InsertAt(last.seq, last.idx, last.val)
    /\ last.op = "push_back" => Elements(array) = Append(last.seq, last.val)
    /\ last.op = "push_front" => Elements(array) = <<last.val>> \o last.seq
    /\ last.op \in {"stack_push", "stack_push_back", "stack_push_front"}
           => /\ stack # Panic
              /\ StackElements(stack) = InsertAt(last.seq, last.idx, last.val)
    /\ last.op = "stack_push_back"
           => StackElements(stack) = Append(last.seq, last.val)
    /\ last.op = "stack_push_front"
           => StackElements(stack) = <<last.val>> \o last.seq

\* C15 witness: a push into the middle of a full array.rs Array, which
\* doubled the capacity and moved two elements that differ.
PushGrewAndShifted ==
    /\ last.op = "push"
    /\ array.capacity = 2 * last.capacity
    /\ last.idx + 2 <= Len(last.seq)
    /\ last.seq[last.idx + 1] # last.seq[last.idx + 2]

\* A push that halved the capacity before it wrote.
PushShrank ==
    /\ last.op \in {"push", "push_back", "push_front"}
    /\ array.capacity < last.capacity

\* The same for the array_stack.rs Array.
StackPushGrewAndShifted ==
    /\ last.op = "stack_push"
    /\ stack.capacity = 2 * last.capacity
    /\ last.idx + 2 <= Len(last.seq)
    /\ last.seq[last.idx + 1] # last.seq[last.idx + 2]

\* C16.  Growable array removal (array.rs): remove(idx) with idx < size
\* returns Some(a[idx]) and leaves a[0..idx) ++ a[idx+1..size) as read by
\* get, of length size - 1, also when it shrinks the capacity; remove(idx)
\* with idx >= size returns None and changes nothing.
ArrayRemoval ==
    last.op \in {"remove", "pop_back", "pop_front"}
        => IF last.idx < Len(last.seq)
           THEN /\ last.ret = last.seq[last.idx + 1]
                /\ Elements(array) = RemoveAt(last.seq, last.idx)
                /\ array.size = Len(last.seq) - 1
           ELSE /\ last.ret = None
                /\ Elements(array) = last.seq
                /\ array.size = Len(last.seq)
                /\ array.capacity = last.capacity

\* C16 witness: a remove that moved two elements that differ and halved the
\* capacity.
RemoveShiftedAndShrank ==
    /\ last.op = "remove"
    /\ last.idx + 3 <= Len(last.seq)
    /\ last.seq[last.idx + 2] # last.seq[last.idx + 3]
    /\ array.capacity < last.capacity

\* An out-of-range remove on an Array that holds elements.
ArrayRemoveOutOfRange ==
    /\ last.op = "remove"
    /\ last.idx >= Len(last.seq)
    /\ Len(last.seq) >= 2

\* C17.  Shrink policy: a successful Array::remove halves the capacity
\* (integer division) exactly when the size after the removal is below
\* capacity / 2, and leaves it alone otherwise; an Array grown from
\* Array::new() by 9 pushes has capacity 16, keeps it at the first pop_back
\* and has capacity 8 after the second.
ShrinkPolicy ==
    /\ (last.op \in {"remove", "pop_back", "pop_front"}
            /\ last.idx < Len(last.seq))
           => array.capacity = IF Len(last.seq) - 1 < last.capacity \div 2
                               THEN last.capacity \div 2
                               ELSE last.capacity
    /\ CapacityAfterPushes(9, 0, 1) = 16
    /\ CapacityAfterPops(1, 9, CapacityAfterPushes(9, 0, 1)) = 16
    /\ CapacityAfterPops(2, 9, CapacityAfterPushes(9, 0, 1)) = 8

\* C17 witness: the second pop_back after a grow one element past half the
\* capacity: the size drops below capacity / 2 and the capacity is halved.
SecondPopShrinks ==
    /\ last.op = "pop_back"
    /\ last.capacity >= 8
    /\ Len(last.seq) = last.capacity \div 2
    /\ array.capacity = last.capacity \div 2

\* The first pop_back after the same grow: the capacity stays.
FirstPopKeeps ==
    /\ last.op = "pop_back"
    /\ last.capacity >= 8
    /\ Len(last.seq) = last.capacity \div 2 + 1
    /\ array.capacity = last.capacity

\* Every slot index of S is inside an allocation of cap slots.
Within(S, cap) == \A p \in S : 0 <= p /\ p < cap

\* In every reachable state the slots peek, remove, enqueue, add and resize
\* would access are inside the allocation.
ModAccessInBounds ==
    LET grown == after_grow_check(deque)
    IN /\ \A idx \in 0..MaxLen :
              Within(peek_reads(deque, idx) \cup remove_reads(deque, idx)
                         \cup remove_writes(deque, idx),
                     capacity(deque.arr))
       /\ deque.size >= capacity(deque.arr)
              => Within(resize_reads(deque) \cup resize_writes(deque),
                        capacity(grown.arr))
       /\ Within(enqueue_writes(grown), capacity(grown.arr))
       /\ \A idx \in 0..deque.size :
              Within(add_reads(grown, idx) \cup add_writes(grown, idx),
                     capacity(grown.arr))

\* C18.  In-bounds raw access: in every state reachable by enqueue, dequeue,
\* peek, add (idx <= size) and remove, every slot index a ring operation
\* hands to read_at or write_at is below the capacity.
RawAccessInBounds ==
    /\ ModAccessInBounds
    /\ Within(dequeue_reads(deque), capacity(deque.arr))

\* The occupied slots: those of the logical positions [0, size).
Occupied(self) == slots(self, 0..(self.size - 1))

\* In every reachable state the slots peek, remove, resize and an add on a
\* container that holds an element would read are occupied.
ShiftReadsOccupied ==
    LET grown == after_grow_check(deque)
    IN /\ \A idx \in 0..MaxLen :
              peek_reads(deque, idx) \cup remove_reads(deque, idx)
                  \subseteq Occupied(deque)
       /\ deque.size >= capacity(deque.arr)
              => resize_reads(deque) \subseteq Occupied(deque)
       /\ deque.size > 0
              => \A idx \in 0..deque.size :
                     add_reads(grown, idx) \subseteq Occupied(grown)

\* C19.  No read of stale or uninitialized slots: in every reachable state,
\* every slot a ring operation reads (peek, dequeue, the shifts of add and
\* remove, the relayout of resize) is an occupied slot; in particular
\* add(0, v) on an empty container reads none.
NoStaleRead ==
    /\ ShiftReadsOccupied
    /\ dequeue_reads(deque) \subseteq Occupied(deque)
    /\ \A idx \in 0..deque.size :
           add_reads(after_grow_check(deque), idx)
               \subseteq Occupied(after_grow_check(deque))

\* C20.  Grow-and-relayout safety: whenever resize runs in a reachable full
\* state (any first_in, wrapped or not), its forward loop never writes a
\* slot that is the source of an element of a later iteration, and after it
\* first_in and size are as before and peek(i) returns what it returned
\* before, for every i in [0, size); an enqueue that grew shows the same
\* elements followed by the new one.
RelayoutSafe ==
    /\ deque.size >= capacity(deque.arr)
           => /\ \A i \in resize_moved(deque), j \in 0..(deque.size - 1) :
                     i < j => resize_new_idx(deque, i)
                                  # resize_former_idx(deque, j)
              /\ \A fresh \in Grown(deque) :
                     LET resized == resize(deque, fresh)
                     IN /\ resized.first_in = deque.first_in
                        /\ resized.size = deque.size
                        /\ capacity(resized.arr) = 2 * capacity(deque.arr)
                        /\ Logical(resized) = Logical(deque)
    /\ (last.op = "enqueue" /\ capacity(deque.arr) # last.capacity)
           => /\ deque.first_in = last.first_in
              /\ Logical(deque) = Append(last.seq, last.val)

\* C20 witness: an enqueue whose resize moved elements of a wrapped buffer
\* that add and remove had filled, first_in being inside the old buffer.
ResizedWrapped ==
    /\ last.op = "enqueue"
    /\ capacity(deque.arr) = 2 * last.capacity
    /\ last.first_in > 0
    /\ last.first_in < last.capacity
    /\ Len(last.seq) >= 3
    /\ last.seq[1] # last.seq[Len(last.seq)]
    /\ enqueued < 0

\* An enqueue whose resize ran with first_in at or past the old capacity.
ResizedPastCapacity ==
    /\ last.op = "enqueue"
    /\ capacity(deque.arr) = 2 * last.capacity
    /\ last.first_in >= last.capacity
    /\ Len(last.seq) >= 2

\* C21.  Effect of add on first_in: with c the capacity after the grow the
\* call may perform, add(idx, v) with idx > size / 2 leaves first_in as it
\* was and add(idx, v) with idx <= size / 2 sets it to (first_in - 1) mod c
\* (c - 1 when first_in was 0); either way the size grows by exactly 1.
AddMovesFirstIn ==
    last.op = "add"
        => /\ deque.first_in
                  = IF last.idx > Len(last.seq) \div 2 THEN last.first_in
                    ELSE (last.first_in - 1) % capacity(deque.arr)
           /\ deque.size = Len(last.seq) + 1

\* The same for the adds called with first_in at most the capacity the
\* call ends with.
AddMovesFirstInWithin ==
    (last.op = "add" /\ last.first_in <= capacity(deque.arr))
        => /\ deque.first_in
                  = IF last.idx > Len(last.seq) \div 2 THEN last.first_in
                    ELSE (last.first_in - 1) % capacity(deque.arr)
           /\ deque.size = Len(last.seq) + 1

\* C22.  Growable array invariant: for an Array created with capacity >= 1,
\* after any sequence of push (index <= size), push_back, push_front,
\* remove, pop_front and pop_back on a non-empty Array, capacity >= 1 and
\* 0 <= size <= capacity, and every write of a shift (and of the value
\* pushed) goes to an index below the capacity the call works with.
ArrayInvariant ==
    array # NoArray
        => /\ array.capacity >= 1
           /\ 0 <= array.size
           /\ array.size <= array.capacity
           /\ \A index \in 0..array.size :
                  Within(push_writes(array, index),
                         new_capacity(array.size, array.capacity))
           /\ \A idx \in 0..MaxLen :
                  Within(array_remove_writes(array, idx), array.capacity)

\* C22 witness: a push_front that shifted every element of an Array and
\* left it full, its last write going to slot capacity - 1.
PushFrontFilled ==
    /\ last.op = "push_front"
    /\ array.capacity >= 4
    /\ array.size = array.capacity
    /\ array.capacity = last.capacity

\* An Array emptied by removes, its capacity back at 1.
EmptiedToOne ==
    /\ last.op \in {"remove", "pop_back", "pop_front"}
    /\ last.capacity >= 2
    /\ array.size = 0
    /\ array.capacity = 1

\* C23.  The Array shrinks only on removal: push, push_back and push_front
\* never lower the capacity, for any starting capacity >= 1 and any size,
\* an empty Array created by with_capacity(C), C > 1, included.
PushNeverShrinks ==
    last.op \in {"push", "push_back", "push_front"}
        => array.capacity >= last.capacity

\* The pushes of the array_stack.rs Array never lower its capacity.
StackPushNeverShrinks ==
    last.op \in {"stack_push", "stack_push_back", "stack_push_front"}
        => stack.capacity >= last.capacity

\* C24.  pop_back on an empty Array is a recoverable out-of-range removal:
\* it returns None and leaves size and capacity as they were, and its index
\* computation size - 1 does not underflow (no panic, no wrapped index).
PopBackOnEmptyIsNone ==
    last.op = "pop_back_empty"
        => /\ last.ret = None
           /\ array.size = 0
           /\ array.capacity = last.capacity
           /\ last.idx \notin {Overflowed, UsizeMax}

\* pop_back on an empty Array leaves size, capacity and the slots, whatever
\* the subtraction came to, and returns None when it wrapped.
PopBackOnEmptyKeepsArray ==
    /\ last.op = "pop_back_empty"
           => /\ array.size = 0
              /\ array.capacity = last.capacity
              /\ last.idx = UsizeMax => last.ret = None
    /\ [][last'.op = "pop_back_empty" => array' = array]_vars

=============================================================================
